---- MODULE Spec2Model ----
(***************************************************************************)
(* Model of the encrypted mutual-like matching program:                    *)
(*   - the confidential circuits of encrypted-ixs (init_match_session,     *)
(*     submit_like, check_mutual_match), as operators ix_*;                *)
(*   - the on-chain handlers and callbacks of programs/contract, as        *)
(*     operators on the MatchPairSession account and as actions;           *)
(*   - the computation engine between them: a computation is queued by a   *)
(*     handler, executed later on the account data it then finds, and its  *)
(*     output handed to the callback, or it is aborted.                    *)
(***************************************************************************)
EXTENDS Integers, Sequences, FiniteSets, TLC

\* ------------------------------------------------------------------ bounds
\* largest clock value and largest client-chosen timestamp
MaxTime == 1
\* computations queued and not yet called back
MaxInflight == 2
\* circuit calls applied one after the other to one confidential session
MaxCalls == 3

\* Every ciphertext the engine returns is under a nonce of its own. A nonce
\* is named by its age: CurNonce is the nonce of the ciphertext the account
\* holds now (or, before the first one is stored, the client's nonce written
\* by init_match_session), OldNonce any nonce the account held before.
CurNonce == "cur"
OldNonce == "old"

Times == 0..MaxTime

\* ------------------------------------------------------- identities
\* A public key is <<first 8 bytes, remaining bytes>>.
Pubkeys == {<<1, 0>>, <<2, 0>>, <<1, 1>>}

\* the pairs a session is created for: two keys with different first 8
\* bytes, and two keys that share them
UserPairs == {<<<<1, 0>>, <<2, 0>>>>, <<<<1, 0>>, <<1, 1>>>>}

\* u64::from_le_bytes(key[0..8])
IdOf(pk) == pk[1]

\* u64 identifiers a client or a decryption can come up with
Ids == {0, 1, 2}

SessionId == 7

\* ------------------------------------------------- confidential circuits
MatchSessions ==
    [user_a_id : Ids, user_b_id : Ids,
     user_a_liked : BOOLEAN, user_b_liked : BOOLEAN,
     session_created_at : Times, last_updated : Times]

UserLikeActions ==
    [user_id : Ids, target_id : Ids, like_action : BOOLEAN, timestamp : Times]

\* the (user_id, target_id) clients name: each pairing of the two ids in
\* use, and a pairing that names the same id twice
Pairings == {<<1, 2>>, <<2, 1>>, <<1, 1>>}

\* the actions a client can submit with timestamp t
ActionsAt(t) ==
    {[user_id |-> p[1], target_id |-> p[2], like_action |-> l, timestamp |-> t] :
       p \in Pairings, l \in BOOLEAN}

SubmittedActions == UNION {ActionsAt(t) : t \in Times}

ix_init_match_session_mut_updated(user_a_id, user_b_id, current_timestamp) ==
    [user_a_id |-> user_a_id,
     user_b_id |-> user_b_id,
     user_a_liked |-> FALSE,
     user_b_liked |-> FALSE,
     session_created_at |-> current_timestamp,
     last_updated |-> 0]

ix_init_match_session(user_a_id, user_b_id, current_timestamp) ==
    [user_a_id |-> user_a_id,
     user_b_id |-> user_b_id,
     user_a_liked |-> FALSE,
     user_b_liked |-> FALSE,
     session_created_at |-> current_timestamp,
     last_updated |-> current_timestamp]

like_branch_mut_no_target(like_action, match_session) ==
    IF /\ like_action.user_id = match_session.user_a_id
       /\ ~match_session.user_a_liked
    THEN "a"
    ELSE IF /\ like_action.user_id = match_session.user_b_id
            /\ ~match_session.user_b_liked
         THEN "b"
         ELSE "none"

\* which branch of submit_like the action takes on the session
like_branch(like_action, match_session) ==
    IF /\ like_action.user_id = match_session.user_a_id
       /\ like_action.target_id = match_session.user_b_id
       /\ ~match_session.user_a_liked
    THEN "a"
    ELSE IF /\ like_action.user_id = match_session.user_b_id
            /\ like_action.target_id = match_session.user_a_id
            /\ ~match_session.user_b_liked
         THEN "b"
         ELSE "none"

ix_submit_like_mut_status(like_action, match_session) ==
    LET br == like_branch(like_action, match_session)
        upd == IF br = "a"
               THEN [match_session EXCEPT !.user_a_liked = like_action.like_action,
                                          !.last_updated = like_action.timestamp]
               ELSE IF br = "b"
               THEN [match_session EXCEPT !.user_b_liked = like_action.like_action,
                                          !.last_updated = like_action.timestamp]
               ELSE match_session
    IN [session |-> upd,
        status |-> IF upd.user_a_liked /\ upd.user_b_liked THEN 2
                   ELSE IF br = "none" THEN 0 ELSE 1]

ix_submit_like_mut_acted(like_action, match_session) ==
    LET br == like_branch(like_action, match_session)
        upd == IF br = "a"
               THEN [match_session EXCEPT !.user_a_liked = TRUE,
                                          !.last_updated = like_action.timestamp]
               ELSE IF br = "b"
               THEN [match_session EXCEPT !.user_b_liked = TRUE,
                                          !.last_updated = like_action.timestamp]
               ELSE match_session
    IN [session |-> upd,
        status |-> IF br = "none" THEN 0
                   ELSE IF upd.user_a_liked /\ upd.user_b_liked THEN 2 ELSE 1]

ix_submit_like_mut_swap(like_action, match_session) ==
    LET br == like_branch(like_action, match_session)
        upd == IF br = "a"
               THEN [match_session EXCEPT !.user_a_liked = like_action.like_action,
                                          !.last_updated = like_action.timestamp]
               ELSE IF br = "b"
               THEN [match_session EXCEPT !.user_a_id = match_session.user_b_id,
                                          !.user_b_id = match_session.user_a_id,
                                          !.user_a_liked = like_action.like_action,
                                          !.user_b_liked = match_session.user_a_liked,
                                          !.last_updated = like_action.timestamp]
               ELSE match_session
    IN [session |-> upd,
        status |-> IF br = "none" THEN 0
                   ELSE IF upd.user_a_liked /\ upd.user_b_liked THEN 2 ELSE 1]

ix_submit_like_mut_before(like_action, match_session) ==
    LET br == like_branch(like_action, match_session)
        upd == IF br = "a"
               THEN [match_session EXCEPT !.user_a_liked = like_action.like_action,
                                          !.last_updated = like_action.timestamp]
               ELSE IF br = "b"
               THEN [match_session EXCEPT !.user_b_liked = like_action.like_action,
                                          !.last_updated = like_action.timestamp]
               ELSE match_session
    IN [session |-> upd,
        status |-> IF br = "none" THEN 0
                   ELSE IF match_session.user_a_liked /\ match_session.user_b_liked
                        THEN 2 ELSE 1]

ix_submit_like(like_action, match_session) ==
    LET br == like_branch(like_action, match_session)
        upd == IF br = "a"
               THEN [match_session EXCEPT !.user_a_liked = like_action.like_action,
                                          !.last_updated = like_action.timestamp]
               ELSE IF br = "b"
               THEN [match_session EXCEPT !.user_b_liked = like_action.like_action,
                                          !.last_updated = like_action.timestamp]
               ELSE match_session
    IN [session |-> upd,
        status |-> IF br = "none" THEN 0
                   ELSE IF upd.user_a_liked /\ upd.user_b_liked THEN 2 ELSE 1]

ix_check_mutual_match_mut_or(match_session, current_timestamp) ==
    LET is_mutual == match_session.user_a_liked \/ match_session.user_b_liked
    IN [is_mutual_match |-> is_mutual,
        session_status |-> IF is_mutual THEN 1 ELSE 2,
        match_timestamp |-> IF is_mutual THEN current_timestamp ELSE 0]

ix_check_mutual_match_mut_timestamp(match_session, current_timestamp) ==
    LET is_mutual == match_session.user_a_liked /\ match_session.user_b_liked
    IN [is_mutual_match |-> is_mutual,
        session_status |-> IF is_mutual THEN 1
                           ELSE IF match_session.user_a_liked \/ match_session.user_b_liked
                                THEN 0 ELSE 2,
        match_timestamp |-> current_timestamp]

ix_check_mutual_match(match_session, current_timestamp) ==
    LET is_mutual == match_session.user_a_liked /\ match_session.user_b_liked
    IN [is_mutual_match |-> is_mutual,
        session_status |-> IF is_mutual THEN 1
                           ELSE IF match_session.user_a_liked \/ match_session.user_b_liked
                                THEN 0 ELSE 2,
        match_timestamp |-> IF is_mutual THEN current_timestamp ELSE 0]

\* ---------------------------------------------------- compatibility score
\* u8 arithmetic: a sum or product that leaves 0..255 wraps around
WrapU8(n) == n % 256

\* both ages are within the range the other side prefers
age_compatible(user_a_prefs, user_b_prefs, user_a_profile, user_b_profile) ==
    /\ user_b_profile.age >= user_a_prefs.preferred_age_min
    /\ user_b_profile.age <= user_a_prefs.preferred_age_max
    /\ user_a_profile.age >= user_b_prefs.preferred_age_min
    /\ user_a_profile.age <= user_b_prefs.preferred_age_max

age_part(user_a_prefs, user_b_prefs, user_a_profile, user_b_profile) ==
    IF age_compatible(user_a_prefs, user_b_prefs, user_a_profile, user_b_profile)
    THEN 30 ELSE 0

\* what is added for shared interests: interests_score, capped at 25
interests_part(user_a_profile, user_b_profile) ==
    LET interests_score ==
          IF user_a_profile.interests_count > 0 /\ user_b_profile.interests_count > 0
          THEN LET min_interests ==
                     IF user_a_profile.interests_count < user_b_profile.interests_count
                     THEN user_a_profile.interests_count
                     ELSE user_b_profile.interests_count
               IN WrapU8(min_interests * 25) \div 10
          ELSE 0
    IN IF interests_score > 25 THEN 25 ELSE interests_score

location_part_mut_uncapped(user_a_profile, user_b_profile) ==
    WrapU8(user_a_profile.location_score + user_b_profile.location_score) \div 2

\* what is added for location: the mean of the two scores, capped at 25
location_part(user_a_profile, user_b_profile) ==
    LET location_score ==
          WrapU8(user_a_profile.location_score + user_b_profile.location_score) \div 2
    IN IF location_score > 25 THEN 25 ELSE location_score

relationship_part(user_a_profile, user_b_profile) ==
    IF user_a_profile.relationship_type = user_b_profile.relationship_type
    THEN 20 ELSE 0

\* the revealed score: the four parts added to a u8 one after the other, and
\* the total capped at 100
ix_calculate_compatibility(user_a_prefs, user_b_prefs, user_a_profile, user_b_profile) ==
    LET s1 == WrapU8(0 + age_part(user_a_prefs, user_b_prefs,
                                  user_a_profile, user_b_profile))
        s2 == WrapU8(s1 + interests_part(user_a_profile, user_b_profile))
        s3 == WrapU8(s2 + location_part(user_a_profile, user_b_profile))
        compatibility_score == WrapU8(s3 + relationship_part(user_a_profile, user_b_profile))
    IN IF compatibility_score > 100 THEN 100 ELSE compatibility_score

\* -------------------------------------------------------- ciphertexts
ZeroSession == ix_init_match_session(0, 0, 0)

\* the account bytes before any ciphertext has been written
ZeroData == [valid |-> FALSE, nonce |-> CurNonce, plain |-> ZeroSession]

\* from_arcis: the session encrypted under an output nonce
Encrypt(nonce, match_session) ==
    [valid |-> TRUE, nonce |-> nonce, plain |-> match_session]

\* What bytes decrypt to under a nonce they were not encrypted with: the two
\* flags, which alone steer the circuits, take every value; the identifiers
\* are a value that is no key's, and the timestamps are some value.
GarbageSessions ==
    {m \in MatchSessions : /\ m.user_a_id = 0 /\ m.user_b_id = 0
                           /\ m.session_created_at = 0 /\ m.last_updated = 0}

\* to_arcis: the sessions the circuit can see. Bytes that are no ciphertext
\* under the nonce passed with them decrypt to an arbitrary session.
Decrypt(data, nonce) ==
    IF data.valid /\ data.nonce = nonce THEN {data.plain} ELSE GarbageSessions

\* ------------------------------------------------- the stored account
\* MatchPairSession before the init constraint has created it
NoAccount ==
    [initialized |-> FALSE, session_id |-> 0, user_a |-> <<0, 0>>, user_b |-> <<0, 0>>,
     encrypted_match_data |-> ZeroData, nonce |-> CurNonce,
     created_at |-> 0, last_updated |-> 0,
     is_finalized |-> FALSE, match_found |-> FALSE]

ZeroAction == [user_id |-> 0, target_id |-> 0, like_action |-> FALSE, timestamp |-> 0]
ZeroResult == [is_mutual_match |-> FALSE, session_status |-> 0, match_timestamp |-> 0]

\* what the engine hands to a callback
NoOutput == [data |-> ZeroData, status |-> 0, result |-> ZeroResult]

\* a computation as queue_computation records it: the circuit, the nonce
\* passed for the account data, the plaintext or client-encrypted arguments,
\* and, once the engine has run it, the session it decrypted and its output
NewComputation(op, nonce, a_id, b_id, act, now) ==
    [op |-> op, stage |-> "queued",
     nonce |-> nonce, a_id |-> a_id, b_id |-> b_id, act |-> act, now |-> now,
     inp |-> ZeroSession, out |-> NoOutput]

\* handler init_match_session: the fields written before the computation is queued
init_match_session(session_id, user_a, user_b, nonce, now) ==
    [initialized |-> TRUE, session_id |-> session_id, user_a |-> user_a, user_b |-> user_b,
     encrypted_match_data |-> ZeroData, nonce |-> nonce,
     created_at |-> now, last_updated |-> now,
     is_finalized |-> FALSE, match_found |-> FALSE]

init_match_session_callback(match_session, success, output) ==
    IF ~success
    THEN [err |-> "AbortedComputation", acct |-> match_session, event |-> "none"]
    ELSE [err |-> "Ok",
          acct |-> [match_session EXCEPT !.encrypted_match_data = output.data,
                                         !.nonce = output.data.nonce],
          event |-> "none"]

submit_like_authorized_mut_any(match_session, user) ==
    TRUE

\* the require! of submit_like
submit_like_authorized(match_session, user) ==
    user = match_session.user_a \/ user = match_session.user_b

submit_like_callback_mut_abort(match_session, success, output, now) ==
    [err |-> IF success THEN "Ok" ELSE "AbortedComputation",
     acct |-> [match_session EXCEPT !.encrypted_match_data = output.data,
                                    !.nonce = output.data.nonce,
                                    !.last_updated = now],
     event |-> "none"]

submit_like_callback_mut_found(match_session, success, output, now) ==
    IF ~success
    THEN [err |-> "AbortedComputation", acct |-> match_session, event |-> "none"]
    ELSE [err |-> "Ok",
          acct |-> [match_session EXCEPT !.encrypted_match_data = output.data,
                                         !.nonce = output.data.nonce,
                                         !.last_updated = now,
                                         !.match_found = (output.status = 2)],
          event |-> IF output.status = 1 THEN "LikeSubmittedEvent"
                    ELSE IF output.status = 2 THEN "MutualInterestDetectedEvent"
                    ELSE "none"]

submit_like_callback(match_session, success, output, now) ==
    IF ~success
    THEN [err |-> "AbortedComputation", acct |-> match_session, event |-> "none"]
    ELSE [err |-> "Ok",
          acct |-> [match_session EXCEPT !.encrypted_match_data = output.data,
                                         !.nonce = output.data.nonce,
                                         !.last_updated = now],
          event |-> IF output.status = 1 THEN "LikeSubmittedEvent"
                    ELSE IF output.status = 2 THEN "MutualInterestDetectedEvent"
                    ELSE "none"]

check_mutual_match_callback_mut_store(match_session, success, output) ==
    IF ~success
    THEN [err |-> "AbortedComputation", acct |-> match_session, event |-> "none"]
    ELSE [err |-> "Ok",
          acct |-> [match_session EXCEPT !.encrypted_match_data = output.data,
                                         !.nonce = output.data.nonce,
                                         !.is_finalized = TRUE,
                                         !.match_found = output.result.is_mutual_match],
          event |-> IF output.result.is_mutual_match
                    THEN "MutualMatchFoundEvent" ELSE "NoMutualMatchEvent"]

check_mutual_match_callback_mut_final(match_session, success, output) ==
    IF ~success
    THEN [err |-> "AbortedComputation", acct |-> match_session, event |-> "none"]
    ELSE [err |-> "Ok",
          acct |-> [match_session EXCEPT !.is_finalized = ~output.result.is_mutual_match,
                                         !.match_found = output.result.is_mutual_match],
          event |-> IF output.result.is_mutual_match
                    THEN "MutualMatchFoundEvent" ELSE "NoMutualMatchEvent"]

check_mutual_match_callback(match_session, success, output) ==
    IF ~success
    THEN [err |-> "AbortedComputation", acct |-> match_session, event |-> "none"]
    ELSE [err |-> "Ok",
          acct |-> [match_session EXCEPT !.is_finalized = TRUE,
                                         !.match_found = output.result.is_mutual_match],
          event |-> IF output.result.is_mutual_match
                    THEN "MutualMatchFoundEvent" ELSE "NoMutualMatchEvent"]

\* ------------------------------------------------------------- state
VARIABLES
    acct,       \* the MatchPairSession account of the session
    clock,      \* Clock::get()?.unix_timestamp
    comps,      \* computations queued and not yet called back, in queue order
    lastCheck,  \* the check_mutual_match computation whose callback succeeded last
    mutualInterest, \* a submit_like_callback has revealed status MutualInterest
    lastCall,   \* the last instruction processed and its result
    session,    \* a confidential MatchSession the circuits are applied to in turn
    calls,      \* the circuit calls applied to it, each with its input and output
    twin,       \* two such sessions that differ in one participant's decisions
    compat      \* the inputs of one calculate_compatibility call, and its score

vars == <<acct, clock, comps, lastCheck, mutualInterest, lastCall, session, calls, twin,
         compat>>

contractVars == <<acct, clock, comps, lastCheck, mutualInterest, lastCall>>
circuitVars == <<session, calls, twin, compat>>

Call(op, err, event) == [op |-> op, err |-> err, event |-> event]

\* no check_mutual_match callback has succeeded yet
NoCheck == [done |-> FALSE, inp |-> ZeroSession, result |-> ZeroResult]

NoTwin == [left |-> ZeroSession, right |-> ZeroSession,
           seenLeft |-> <<>>, seenRight |-> <<>>]

ZeroPreferences ==
    [preferred_age_min |-> 0, preferred_age_max |-> 0, interests_count |-> 0,
     location_preference |-> 0, relationship_type |-> 0]

ZeroProfile == [age |-> 0, interests_count |-> 0, location_score |-> 0, relationship_type |-> 0]

\* calculate_compatibility has not been called
NoCompat ==
    [user_a_prefs |-> ZeroPreferences, user_b_prefs |-> ZeroPreferences,
     user_a_profile |-> ZeroProfile, user_b_profile |-> ZeroProfile,
     done |-> FALSE, score |-> 0]

\* nothing deployed on the session's address yet
InitContract ==
    /\ acct = NoAccount
    /\ clock = 0
    /\ comps = <<>>
    /\ lastCheck = NoCheck
    /\ mutualInterest = FALSE
    /\ lastCall = Call("none", "Ok", "none")

NoCircuitRun ==
    /\ session = ZeroSession
    /\ calls = <<>>
    /\ twin = NoTwin
    /\ compat = NoCompat

Init == InitContract /\ NoCircuitRun

Remove(seq, i) == SubSeq(seq, 1, i - 1) \o SubSeq(seq, i + 1, Len(seq))

CanQueue == Len(comps) < MaxInflight

\* the computations left in flight after the callback of the i-th; when the
\* callback has stored a new ciphertext, the nonces they were queued with
\* are no longer the account's
Remaining(i, stored) ==
    LET rest == Remove(comps, i) IN
    IF stored THEN [k \in 1..Len(rest) |-> [rest[k] EXCEPT !.nonce = OldNonce]]
    ELSE rest

Tick ==
    /\ clock < MaxTime
    /\ clock' = clock + 1
    /\ UNCHANGED <<acct, comps, lastCheck, mutualInterest, lastCall, circuitVars>>

\* instruction init_match_session: the account is created by the init
\* constraint, so the instruction succeeds once per session id
InitMatchSession(user_a, user_b) ==
    /\ ~acct.initialized
    /\ CanQueue
    /\ acct' = init_match_session(SessionId, user_a, user_b, CurNonce, clock)
    /\ comps' = Append(comps, NewComputation("init_match_session",
                                             CurNonce, IdOf(user_a), IdOf(user_b), ZeroAction, clock))
    /\ lastCall' = Call("init_match_session", "Ok", "MatchSessionCreatedEvent")
    /\ UNCHANGED <<clock, lastCheck, mutualInterest, circuitVars>>

\* instruction submit_like, signed by user, with the client's encrypted action
SubmitLike(user, act) ==
    /\ acct.initialized
    /\ IF ~submit_like_authorized(acct, user)
       THEN /\ lastCall' = Call("submit_like", "UnauthorizedUser", "none")
            /\ UNCHANGED <<acct, clock, comps, lastCheck, mutualInterest, circuitVars>>
       ELSE /\ CanQueue
            /\ comps' = Append(comps, NewComputation("submit_like", acct.nonce,
                                                     0, 0, act, 0))
            /\ lastCall' = Call("submit_like", "Ok", "none")
            /\ UNCHANGED <<acct, clock, lastCheck, mutualInterest, circuitVars>>

\* instruction check_mutual_match, which any payer may send
CheckMutualMatch ==
    /\ acct.initialized
    /\ CanQueue
    /\ comps' = Append(comps, NewComputation("check_mutual_match", acct.nonce,
                                             0, 0, ZeroAction, clock))
    /\ lastCall' = Call("check_mutual_match", "Ok", "none")
    /\ UNCHANGED <<acct, clock, lastCheck, mutualInterest, circuitVars>>

\* the engine runs the circuit of a queued computation on the account data
\* it finds at that moment, decrypted under the nonce passed when queueing
Execute(i) ==
    /\ i \in 1..Len(comps)
    /\ comps[i].stage = "queued"
    /\ LET c == comps[i] IN
       \/ /\ c.op = "init_match_session"
          /\ comps' = [comps EXCEPT ![i].stage = "executed",
                         ![i].out.data = Encrypt(CurNonce,
                                           ix_init_match_session(c.a_id, c.b_id, c.now))]
       \/ /\ c.op = "submit_like"
          /\ \E ms \in Decrypt(acct.encrypted_match_data, c.nonce) :
               LET r == ix_submit_like(c.act, ms) IN
               comps' = [comps EXCEPT ![i].stage = "executed",
                                      ![i].inp = ms,
                                      ![i].out.data = Encrypt(CurNonce, r.session),
                                      ![i].out.status = r.status]
       \/ /\ c.op = "check_mutual_match"
          /\ \E ms \in Decrypt(acct.encrypted_match_data, c.nonce) :
               comps' = [comps EXCEPT ![i].stage = "executed",
                                      ![i].inp = ms,
                                      ![i].out.result = ix_check_mutual_match(ms, c.now)]
    /\ UNCHANGED <<acct, clock, lastCheck, mutualInterest, lastCall, circuitVars>>

CallbackResult(c, success) ==
    IF c.op = "init_match_session"
    THEN init_match_session_callback(acct, success, c.out)
    ELSE IF c.op = "submit_like"
    THEN submit_like_callback(acct, success, c.out, clock)
    ELSE check_mutual_match_callback(acct, success, c.out)

\* the callback instruction of an executed computation, outcome Success
CallbackSuccess(i) ==
    /\ i \in 1..Len(comps)
    /\ comps[i].stage = "executed"
    /\ LET c == comps[i]
           r == CallbackResult(c, TRUE)
       IN /\ acct' = r.acct
          /\ lastCall' = Call(c.op \o "_callback", r.err, r.event)
          /\ lastCheck' = IF c.op = "check_mutual_match"
                          THEN [done |-> TRUE, inp |-> c.inp, result |-> c.out.result]
                          ELSE lastCheck
          /\ mutualInterest' = (mutualInterest \/ (c.op = "submit_like" /\ c.out.status = 2))
    /\ comps' = Remaining(i, comps[i].op # "check_mutual_match")
    /\ UNCHANGED <<clock, circuitVars>>

\* the callback instruction of a computation the engine aborted
CallbackAborted(i) ==
    /\ i \in 1..Len(comps)
    /\ LET c == comps[i]
           r == CallbackResult(c, FALSE)
       IN /\ acct' = r.acct
          /\ lastCall' = Call(c.op \o "_callback", r.err, r.event)
    /\ comps' = Remaining(i, FALSE)
    /\ UNCHANGED <<clock, lastCheck, mutualInterest, circuitVars>>

\* Spec: up to MaxInflight computations in flight, queued, executed and called
\* back in any interleaving, within one clock value; clients stamp their
\* actions with the clock.
Next ==
    \/ \E pair \in UserPairs : InitMatchSession(pair[1], pair[2])
    \/ \E user \in Pubkeys, act \in ActionsAt(clock) :
          SubmitLike(user, act)
    \/ CheckMutualMatch
    \/ \E i \in 1..MaxInflight : Execute(i)
    \/ \E i \in 1..MaxInflight : CallbackSuccess(i)
    \/ \E i \in 1..MaxInflight : CallbackAborted(i)

Spec == Init /\ [][Next]_vars

\* TimedSpec: one computation at a time, from request to callback, while the
\* clock advances and clients stamp their actions as they please.
TimedNext ==
    \/ Tick
    \/ comps = <<>> /\ \E pair \in UserPairs : InitMatchSession(pair[1], pair[2])
    \/ comps = <<>> /\ \E user \in Pubkeys, act \in SubmittedActions : SubmitLike(user, act)
    \/ comps = <<>> /\ CheckMutualMatch
    \/ Execute(1)
    \/ CallbackSuccess(1)
    \/ CallbackAborted(1)

TimedSpec == Init /\ [][TimedNext]_vars

\* ---------------------------------------------- the circuits in sequence
\* CircuitSpec: the circuits applied one call after the other to one
\* confidential session, each call on the session the previous one returned.
ParticipantIds == {IdOf(pk) : pk \in Pubkeys}

CircuitCall(op, act, now, before, after, status, result) ==
    [op |-> op, act |-> act, now |-> now, before |-> before, after |-> after,
     status |-> status, result |-> result]

CircuitInit ==
    /\ InitContract
    /\ \E user_a_id, user_b_id \in ParticipantIds, t \in Times :
         session = ix_init_match_session(user_a_id, user_b_id, t)
    /\ calls = <<>>
    /\ twin = NoTwin
    /\ compat = NoCompat

ApplySubmitLike(act) ==
    /\ Len(calls) < MaxCalls
    /\ LET r == ix_submit_like(act, session) IN
         /\ session' = r.session
         /\ calls' = Append(calls, CircuitCall("submit_like", act, 0, session, r.session,
                                               r.status, ZeroResult))
    /\ UNCHANGED <<contractVars, twin, compat>>

ApplyCheckMutualMatch(now) ==
    /\ Len(calls) < MaxCalls
    /\ calls' = Append(calls, CircuitCall("check_mutual_match", ZeroAction, now, session,
                                          session, 0, ix_check_mutual_match(session, now)))
    /\ UNCHANGED <<contractVars, session, twin, compat>>

CircuitNext ==
    \/ \E act \in SubmittedActions : ApplySubmitLike(act)
    \/ \E now \in Times : ApplyCheckMutualMatch(now)

CircuitSpec == CircuitInit /\ [][CircuitNext]_vars

\* ------------------------------------------------- two runs side by side
\* TwinSpec: two runs of the circuits on sessions of the same two participants.
\* user_a submits the same actions in both; user_b submits at the same moments
\* in both, with a decision chosen for each run; checks are made in both. Each
\* run records what it reveals: the status of every submit_like, the result of
\* every check_mutual_match, and the event the callback emits for it.
Revealed(op, status, result, event) ==
    [op |-> op, status |-> status, result |-> result, event |-> event]

RevealedBySubmitLike(r) ==
    Revealed("submit_like", r.status, ZeroResult,
             submit_like_callback(NoAccount, TRUE,
                                  [data |-> Encrypt(CurNonce, r.session), status |-> r.status,
                                   result |-> ZeroResult], 0).event)

RevealedByCheck(result) ==
    Revealed("check_mutual_match", 0, result,
             check_mutual_match_callback(NoAccount, TRUE,
                                         [data |-> ZeroData, status |-> 0,
                                          result |-> result]).event)

TwinInit ==
    /\ InitContract
    /\ session = ZeroSession
    /\ calls = <<>>
    /\ compat = NoCompat
    /\ \E user_a_id, user_b_id \in ParticipantIds, t \in Times :
         /\ user_a_id # user_b_id
         /\ twin = [left |-> ix_init_match_session(user_a_id, user_b_id, t),
                    right |-> ix_init_match_session(user_a_id, user_b_id, t),
                    seenLeft |-> <<>>, seenRight |-> <<>>]

TwinStep(actLeft, actRight) ==
    /\ Len(twin.seenLeft) < MaxCalls
    /\ LET l == ix_submit_like(actLeft, twin.left)
           r == ix_submit_like(actRight, twin.right)
       IN twin' = [left |-> l.session, right |-> r.session,
                   seenLeft |-> Append(twin.seenLeft, RevealedBySubmitLike(l)),
                   seenRight |-> Append(twin.seenRight, RevealedBySubmitLike(r))]
    /\ UNCHANGED <<contractVars, session, calls, compat>>

\* user_a submits the same action in both runs
TwinSubmitOwn(like, t) ==
    LET act == [user_id |-> twin.left.user_a_id, target_id |-> twin.left.user_b_id,
                like_action |-> like, timestamp |-> t]
    IN TwinStep(act, act)

\* user_b submits in both runs, liking or passing in each
TwinSubmitOther(likeLeft, likeRight, t) ==
    LET act == [user_id |-> twin.left.user_b_id, target_id |-> twin.left.user_a_id,
                like_action |-> likeLeft, timestamp |-> t]
    IN TwinStep(act, [act EXCEPT !.like_action = likeRight])

TwinCheck(now) ==
    /\ Len(twin.seenLeft) < MaxCalls
    /\ twin' = [twin EXCEPT
                  !.seenLeft = Append(@, RevealedByCheck(ix_check_mutual_match(twin.left, now))),
                  !.seenRight = Append(@, RevealedByCheck(ix_check_mutual_match(twin.right, now)))]
    /\ UNCHANGED <<contractVars, session, calls, compat>>

TwinNext ==
    \/ \E like \in BOOLEAN, t \in Times : TwinSubmitOwn(like, t)
    \/ \E likeLeft, likeRight \in BOOLEAN, t \in Times : TwinSubmitOther(likeLeft, likeRight, t)
    \/ \E now \in Times : TwinCheck(now)

TwinSpec == TwinInit /\ [][TwinNext]_vars

\* ------------------------------------------- one compatibility computation
\* CompatSpec: calculate_compatibility applied once. Every field is a u8. In
\* turn, one field of user A's profile runs through all of u8 while the other
\* inputs take values at and around the limits the circuit compares with:
\* the ends of a preferred age range, the interest counts whose product with
\* 25 stays below or passes 255, and the location scores whose sum does.
U8 == 0..255

Preferences(mins, maxs) ==
    [preferred_age_min : mins, preferred_age_max : maxs, interests_count : {0},
     location_preference : {0}, relationship_type : {0}]

Profiles(ages, counts, scores, types) ==
    [age : ages, interests_count : counts, location_score : scores,
     relationship_type : types]

CompatInputs ==
    \* the age of A through u8
    [user_a_prefs : Preferences({18}, {30}),
     user_b_prefs : Preferences({0, 18}, {30, 255}),
     user_a_profile : Profiles(U8, {10}, {51}, {0, 1}),
     user_b_profile : Profiles({17, 18, 30, 31}, {0, 10}, {51}, {0, 1})]
    \cup
    \* the interest count of A through u8
    [user_a_prefs : Preferences({18}, {30}),
     user_b_prefs : Preferences({18}, {30}),
     user_a_profile : Profiles({18, 31}, U8, {0, 255}, {0, 1}),
     user_b_profile : Profiles({18}, {0, 1, 10, 11, 255}, {0, 255}, {0, 1})]
    \cup
    \* the location score of A through u8
    [user_a_prefs : Preferences({18}, {30}),
     user_b_prefs : Preferences({18}, {30}),
     user_a_profile : Profiles({18, 31}, {0, 10}, U8, {0, 1}),
     user_b_profile : Profiles({18}, {10}, {0, 1, 51, 255}, {0, 1})]
    \cup
    \* the relationship type of A through u8
    [user_a_prefs : Preferences({18}, {30}),
     user_b_prefs : Preferences({18}, {30}),
     user_a_profile : Profiles({18}, {10}, {51}, U8),
     user_b_profile : Profiles({18, 31}, {0, 10}, {0}, {0, 1, 255})]

CompatInit ==
    /\ InitContract
    /\ session = ZeroSession
    /\ calls = <<>>
    /\ twin = NoTwin
    /\ \E inp \in CompatInputs :
         compat = [user_a_prefs |-> inp.user_a_prefs, user_b_prefs |-> inp.user_b_prefs,
                   user_a_profile |-> inp.user_a_profile,
                   user_b_profile |-> inp.user_b_profile,
                   done |-> FALSE, score |-> 0]

CalculateCompatibility ==
    /\ ~compat.done
    /\ compat' = [compat EXCEPT
                    !.done = TRUE,
                    !.score = ix_calculate_compatibility(compat.user_a_prefs,
                                                         compat.user_b_prefs,
                                                         compat.user_a_profile,
                                                         compat.user_b_profile)]
    /\ UNCHANGED <<contractVars, session, calls, twin>>

CompatNext == CalculateCompatibility

CompatSpec == CompatInit /\ [][CompatNext]_vars

\* ------------------------------------------------------------ claims
\* the session held in the stored ciphertext
Stored == acct.encrypted_match_data.plain

\* the session was initialised, and holds a ciphertext of its two participants
SessionLive ==
    /\ acct.initialized
    /\ acct.encrypted_match_data.valid
    /\ Stored.user_a_id = IdOf(acct.user_a)
    /\ Stored.user_b_id = IdOf(acct.user_b)

BothLiked(match_session) == match_session.user_a_liked /\ match_session.user_b_liked

\* C1: a match is reported only for both likes. Every executed
\* check_mutual_match whose result says is_mutual_match or status Match(1) was
\* computed on a session with both flags true, and match_found is true on the
\* stored session only if the check whose callback set it was such a check.
C1_MatchOnlyWhenBothLiked ==
    /\ \A k \in 1..Len(comps) :
         (comps[k].op = "check_mutual_match" /\ comps[k].stage = "executed")
           => ((comps[k].out.result.is_mutual_match \/ comps[k].out.result.session_status = 1)
                 => BothLiked(comps[k].inp))
    /\ acct.match_found
         => /\ lastCheck.done
            /\ lastCheck.result.is_mutual_match
            /\ lastCheck.result.session_status = 1
            /\ BothLiked(lastCheck.inp)

\* a match has been revealed on a live session, and another check that found
\* one flag only is waiting for its callback
C1_Witness ==
    /\ SessionLive
    /\ acct.match_found
    /\ BothLiked(lastCheck.inp)
    /\ \E k \in 1..Len(comps) :
         /\ comps[k].op = "check_mutual_match" /\ comps[k].stage = "executed"
         /\ ~BothLiked(comps[k].inp)
         /\ comps[k].inp.user_a_liked
         /\ ~comps[k].out.result.is_mutual_match

\* C5: a callback whose computation did not succeed returns AbortedComputation,
\* leaves every field of the stored session as it was, and queues nothing.
C5_AbortIsNoOp ==
    [][\A i \in 1..MaxInflight :
         CallbackAborted(i)
           => /\ lastCall'.err = "AbortedComputation"
              /\ acct' = acct
              /\ comps' = Remove(comps, i)]_vars

\* an executed submit_like that would have recorded a like was aborted, and the
\* session still holds no decision
C5_Witness ==
    /\ lastCall = Call("submit_like_callback", "AbortedComputation", "none")
    /\ SessionLive
    /\ ~Stored.user_a_liked /\ ~Stored.user_b_liked
    /\ comps = <<>>

\* C7: a submit_like signed by a key that is neither user_a nor user_b is
\* rejected with UnauthorizedUser; the session and the computations in flight
\* stay as they were.
C7_UnauthorizedRejected ==
    [][\A user \in Pubkeys :
         (acct.initialized /\ user # acct.user_a /\ user # acct.user_b)
           => \A act \in ActionsAt(clock) :
                SubmitLike(user, act)
                  => /\ lastCall' = Call("submit_like", "UnauthorizedUser", "none")
                     /\ acct' = acct
                     /\ comps' = comps]_vars

\* an outsider's request was rejected while a computation was in flight
C7_Witness ==
    /\ lastCall.err = "UnauthorizedUser"
    /\ SessionLive
    /\ Len(comps) = 1

\* C8, as claimed: once is_finalized is true, the successful callback of a
\* submit_like leaves both decision flags of the stored ciphertext as they
\* were. (Under TimedSpec the request of that submit_like came after the
\* finalization too.)
C8_Claimed ==
    [][(/\ acct.is_finalized
        /\ SessionLive
        /\ CallbackSuccess(1)
        /\ comps[1].op = "submit_like")
         => /\ acct'.encrypted_match_data.plain.user_a_liked = Stored.user_a_liked
            /\ acct'.encrypted_match_data.plain.user_b_liked = Stored.user_b_liked]_vars

\* C9, as claimed, for a session whose initialisation succeeded: once
\* is_finalized is true it stays true and match_found keeps its value.
C9_Claimed ==
    [][(acct.is_finalized /\ SessionLive)
         => /\ acct'.is_finalized
            /\ acct'.match_found = acct.match_found]_vars

\* the action of a like=true with the pairing of user_b
IsLikeOfB(c) ==
    /\ c.op = "submit_like"
    /\ c.act.like_action
    /\ c.act.user_id = IdOf(acct.user_b)
    /\ c.act.target_id = IdOf(acct.user_a)

\* C10, as claimed: user_b's like=true was executed on the session while it
\* held no decision, and user_a's like has been recorded in the stored session
\* by the time user_b's callback is applied; after that callback the stored
\* session has both flags true.
C10_Claimed ==
    [][\A i \in 1..MaxInflight :
         (/\ CallbackSuccess(i)
          /\ IsLikeOfB(comps[i])
          /\ IdOf(acct.user_a) # IdOf(acct.user_b)
          /\ comps[i].inp =
               ix_init_match_session(IdOf(acct.user_a), IdOf(acct.user_b), acct.created_at)
          /\ SessionLive
          /\ Stored.user_a_liked /\ ~Stored.user_b_liked)
           => BothLiked(acct'.encrypted_match_data.plain)]_vars

\* the participant whose pairing (user_id, target_id) the action carries
PairingSide(act, match_session) ==
    IF act.user_id = match_session.user_a_id /\ act.target_id = match_session.user_b_id
    THEN "a"
    ELSE IF act.user_id = match_session.user_b_id /\ act.target_id = match_session.user_a_id
         THEN "b"
         ELSE "none"

LikedBy(side, match_session) ==
    IF side = "a" THEN match_session.user_a_liked ELSE match_session.user_b_liked

\* calls i < j are submit_like calls that carry the pairing of the same
\* participant, in a session of two different ids
SameSide(i, j) ==
    /\ i < j
    /\ session.user_a_id # session.user_b_id
    /\ calls[i].op = "submit_like" /\ calls[j].op = "submit_like"
    /\ PairingSide(calls[i].act, session) # "none"
    /\ PairingSide(calls[i].act, session) = PairingSide(calls[j].act, session)

\* C2, as claimed: of two submissions of one participant with the correct
\* pairing, the first returns Recorded or MutualInterest and the second NoOp,
\* whatever the like_action of either.
C2_Claimed ==
    \A i, j \in 1..Len(calls) :
      (/\ SameSide(i, j)
       /\ \A k \in 1..(j - 1) : k # i => ~SameSide(k, j))
        => /\ calls[i].status \in {1, 2}
           /\ calls[j].status = 0

\* C3, as claimed: after a submission of one participant was accepted, a later
\* one of the same participant with the opposite decision leaves that
\* participant's flag as the accepted submission set it and last_updated as it
\* was.
C3_Claimed ==
    \A i, j \in 1..Len(calls) :
      (/\ SameSide(i, j)
       /\ calls[i].status \in {1, 2}
       /\ calls[j].act.like_action # calls[i].act.like_action)
        => /\ LikedBy(PairingSide(calls[i].act, session), calls[j].after)
                = LikedBy(PairingSide(calls[i].act, session), calls[i].after)
           /\ calls[j].after.last_updated = calls[j].before.last_updated

\* the call wrote a decision: it carries the pairing of a participant whose
\* flag was false before it
AppliedTransition(c) ==
    \/ /\ c.act.user_id = c.before.user_a_id /\ c.act.target_id = c.before.user_b_id
       /\ ~c.before.user_a_liked
    \/ /\ c.act.user_id = c.before.user_b_id /\ c.act.target_id = c.before.user_a_id
       /\ ~c.before.user_b_liked

\* C4: submit_like returns MutualInterest exactly when it applied a transition
\* and both flags are true after it; and from a fresh session, a like=true of
\* one participant followed by a like=true of the other returns Recorded and
\* then MutualInterest and ends with both flags true, in either order.
C4_MutualInterestIff ==
    /\ \A i \in 1..Len(calls) :
         calls[i].op = "submit_like"
           => (calls[i].status = 2 <=> (AppliedTransition(calls[i]) /\ BothLiked(calls[i].after)))
    /\ (/\ Len(calls) >= 2
        /\ calls[1].op = "submit_like" /\ calls[2].op = "submit_like"
        /\ calls[1].act.like_action /\ calls[2].act.like_action
        /\ PairingSide(calls[1].act, session) # "none"
        /\ PairingSide(calls[2].act, session) # "none"
        /\ \/ PairingSide(calls[1].act, session) # PairingSide(calls[2].act, session)
           \/ session.user_a_id = session.user_b_id)
         => /\ calls[1].status = 1
            /\ calls[2].status = 2
            /\ BothLiked(calls[2].after)

\* user_b liked, then user_a liked and got MutualInterest, and a third
\* submission on the session with both flags true got NoOp
C4_Witness ==
    /\ Len(calls) = 3
    /\ session.user_a_id # session.user_b_id
    /\ PairingSide(calls[1].act, session) = "b" /\ calls[1].status = 1
    /\ PairingSide(calls[2].act, session) = "a" /\ calls[2].status = 2
    /\ calls[3].op = "submit_like" /\ calls[3].status = 0
    /\ PairingSide(calls[3].act, session) = "a"
    /\ BothLiked(calls[3].after)

\* C6, as claimed: as long as neither run has reached a mutual match, the two
\* runs, which differ in user_b's decisions only, have revealed the same values.
C6_Claimed ==
    (~BothLiked(twin.left) /\ ~BothLiked(twin.right))
      => twin.seenLeft = twin.seenRight

\* C11, as claimed: on a live session the result of a computation is applied
\* only when no computation queued before it is still in flight, that is,
\* callbacks are applied in the order the computations were queued. (The
\* earlier computation differs from it in circuit or action, so that the two
\* callbacks are different steps.)
C11_Claimed ==
    [][\A i \in 2..MaxInflight :
         (/\ SessionLive
          /\ CallbackSuccess(i)
          /\ \/ comps[1].op # comps[i].op
             \/ comps[1].act # comps[i].act)
           => FALSE]_vars

\* the stored record that holds the confidential session in its ciphertext
RecordOf(match_session) ==
    [init_match_session(SessionId, <<1, 0>>, <<2, 0>>, CurNonce, match_session.session_created_at)
       EXCEPT !.encrypted_match_data = Encrypt(CurNonce, match_session)]

\* what the engine hands to check_mutual_match_callback for a result
CheckOutput(result) == [data |-> ZeroData, status |-> 0, result |-> result]

\* no submit_like between calls i and j was accepted
NoLikeAppliedBetween(i, j) ==
    \A k \in (i + 1)..(j - 1) :
      calls[k].op = "submit_like" => calls[k].status = 0

\* C12: check_mutual_match only reads the flags. Two checks with no accepted
\* submit_like between them return the same is_mutual_match and session_status,
\* whatever their timestamps; and the successful callback of a check leaves the
\* ciphertext and the nonce of the stored record, hence both flags, unchanged.
C12_CheckIsPureRead ==
    /\ \A i, j \in 1..Len(calls) :
         (/\ i < j
          /\ calls[i].op = "check_mutual_match" /\ calls[j].op = "check_mutual_match"
          /\ NoLikeAppliedBetween(i, j))
           => /\ calls[i].result.is_mutual_match = calls[j].result.is_mutual_match
              /\ calls[i].result.session_status = calls[j].result.session_status
    /\ \A i \in 1..Len(calls) :
         calls[i].op = "check_mutual_match"
           => LET stored == RecordOf(calls[i].before)
                  after == check_mutual_match_callback(stored, TRUE,
                                                       CheckOutput(calls[i].result)).acct
              IN /\ after.encrypted_match_data = stored.encrypted_match_data
                 /\ after.nonce = stored.nonce
                 /\ calls[i].after = calls[i].before

\* after one like was recorded, a check at time 0 and a check at time 1 were
\* both answered Pending
C12_Witness ==
    /\ Len(calls) = 3
    /\ calls[1].op = "submit_like" /\ calls[1].status = 1 /\ calls[1].act.like_action
    /\ calls[2].op = "check_mutual_match" /\ calls[2].now = 0
    /\ calls[3].op = "check_mutual_match" /\ calls[3].now = 1
    /\ calls[2].result.session_status = 0
    /\ calls[3].result.session_status = 0

\* C13: the result of check_mutual_match for every pair of flags and every
\* timestamp now: both true give (true, Match(1), now); exactly one true gives
\* (false, Pending(0), 0); none gives (false, NoAction(2), 0).
C13_CheckResultTable ==
    \A i \in 1..Len(calls) :
      calls[i].op = "check_mutual_match"
        => LET a == calls[i].before.user_a_liked
               b == calls[i].before.user_b_liked
               r == calls[i].result
           IN /\ (a /\ b)
                   => r = [is_mutual_match |-> TRUE, session_status |-> 1,
                           match_timestamp |-> calls[i].now]
              /\ (a # b)
                   => r = [is_mutual_match |-> FALSE, session_status |-> 0,
                           match_timestamp |-> 0]
              /\ (~a /\ ~b)
                   => r = [is_mutual_match |-> FALSE, session_status |-> 2,
                           match_timestamp |-> 0]

\* after two accepted submissions a check at time 1 found both flags true and
\* answered Match with match_timestamp 1
C13_Witness ==
    /\ Len(calls) = 3
    /\ calls[1].op = "submit_like" /\ calls[2].op = "submit_like"
    /\ calls[3].op = "check_mutual_match" /\ calls[3].now = 1
    /\ BothLiked(calls[3].before)
    /\ calls[3].result.match_timestamp = 1

\* C14, as claimed: once a submit_like callback has revealed MutualInterest,
\* every check_mutual_match computed afterwards (here: on a live session of two
\* different ids, one that reads the stored ciphertext under the nonce it is
\* stored with) returns is_mutual_match, status
\* Match(1) and its own timestamp; and the callback of a check that returned a
\* match sets match_found.
C14_Claimed ==
    [][\A i \in 1..MaxInflight :
         /\ (/\ mutualInterest
             /\ SessionLive
             /\ IdOf(acct.user_a) # IdOf(acct.user_b)
             /\ Execute(i)
             /\ comps[i].op = "check_mutual_match"
             /\ acct.encrypted_match_data.valid
             /\ comps[i].nonce = acct.encrypted_match_data.nonce)
              => comps'[i].out.result =
                   [is_mutual_match |-> TRUE, session_status |-> 1,
                    match_timestamp |-> comps[i].now]
         /\ (/\ CallbackSuccess(i)
             /\ comps[i].op = "check_mutual_match"
             /\ comps[i].out.result.is_mutual_match)
              => acct'.match_found]_vars

\* the other participant
OtherSide(side) == IF side = "a" THEN "b" ELSE "a"

\* C15: on a fresh session of two different ids, when the first submission of
\* one participant is a pass and the other participant then submits like=true,
\* both return Recorded(1), and a check_mutual_match that follows returns
\* Pending(0) with is_mutual_match false.
C15_PassThenLike ==
    (/\ Len(calls) >= 2
     /\ session.user_a_id # session.user_b_id
     /\ calls[1].op = "submit_like" /\ calls[2].op = "submit_like"
     /\ PairingSide(calls[1].act, session) # "none"
     /\ ~calls[1].act.like_action
     /\ PairingSide(calls[2].act, session) = OtherSide(PairingSide(calls[1].act, session))
     /\ calls[2].act.like_action)
      => /\ calls[1].status = 1
         /\ calls[2].status = 1
         /\ (Len(calls) >= 3 /\ calls[3].op = "check_mutual_match")
              => /\ calls[3].result.session_status = 0
                 /\ ~calls[3].result.is_mutual_match

\* user_a passed at time 0, user_b liked at time 1, and a check was made
C15_Witness ==
    /\ Len(calls) = 3
    /\ session.user_a_id # session.user_b_id
    /\ PairingSide(calls[1].act, session) = "a" /\ ~calls[1].act.like_action
    /\ calls[1].act.timestamp = 0
    /\ PairingSide(calls[2].act, session) = "b" /\ calls[2].act.like_action
    /\ calls[2].act.timestamp = 1
    /\ calls[2].status = 1
    /\ calls[3].op = "check_mutual_match"
    /\ calls[3].result.session_status = 0
    /\ ~session.user_a_liked /\ session.user_b_liked

\* C16: init_match_session(user_a_id, user_b_id, now) produces a confidential
\* session with both flags false and session_created_at = last_updated = now,
\* for the two ids it was given; the record the handler creates has
\* is_finalized and match_found false, and so has the record in which the
\* callback stores that session.
C16_InitProducesFreshSession ==
    [][/\ (~acct.initialized /\ acct'.initialized)
            => /\ ~acct'.is_finalized /\ ~acct'.match_found
               /\ acct'.created_at = clock /\ acct'.last_updated = clock
       /\ (Execute(1) /\ comps[1].op = "init_match_session")
            => LET ms == comps'[1].out.data.plain IN
               /\ comps'[1].out.data.valid
               /\ ~ms.user_a_liked /\ ~ms.user_b_liked
               /\ ms.session_created_at = comps[1].now
               /\ ms.last_updated = comps[1].now
               /\ ms.user_a_id = comps[1].a_id /\ ms.user_b_id = comps[1].b_id
               /\ comps[1].now = acct.created_at
       /\ (CallbackSuccess(1) /\ comps[1].op = "init_match_session")
            => /\ acct'.encrypted_match_data = comps[1].out.data
               /\ ~acct'.is_finalized /\ ~acct'.match_found]_vars

\* a session created at time 1 holds its fresh confidential session
C16_Witness ==
    /\ lastCall.op = "init_match_session_callback" /\ lastCall.err = "Ok"
    /\ SessionLive
    /\ acct.created_at = 1
    /\ Stored = ix_init_match_session(IdOf(acct.user_a), IdOf(acct.user_b), 1)
    /\ ~acct.is_finalized /\ ~acct.match_found

\* C17: a submit_like whose (user_id, target_id) is neither (user_a_id,
\* user_b_id) nor (user_b_id, user_a_id) returns NoOp(0) and leaves every field
\* of the confidential session as it was.
C17_WrongPairingIsNoOp ==
    \A i \in 1..Len(calls) :
      (calls[i].op = "submit_like" /\ PairingSide(calls[i].act, calls[i].before) = "none")
        => /\ calls[i].status = 0
           /\ calls[i].after = calls[i].before

\* after a like was recorded at time 0, a like with a wrong pairing and
\* timestamp 1 was refused
C17_Witness ==
    /\ Len(calls) = 2
    /\ calls[1].op = "submit_like" /\ calls[1].status = 1
    /\ calls[1].act.like_action /\ calls[1].act.timestamp = 0
    /\ calls[2].op = "submit_like"
    /\ PairingSide(calls[2].act, calls[2].before) = "none"
    /\ calls[2].act.like_action /\ calls[2].act.timestamp = 1
    /\ calls[2].status = 0
    /\ session = calls[1].after

\* C18, as claimed: on a live session, the callback of a submit_like whose
\* revealed status is NoOp(0) leaves last_updated of the stored record as it
\* was; only status Recorded(1) or MutualInterest(2) changes it.
C18_Claimed ==
    [][(/\ SessionLive
        /\ CallbackSuccess(1)
        /\ comps[1].op = "submit_like"
        /\ comps[1].out.status = 0)
         => acct'.last_updated = acct.last_updated]_vars

\* the call is a submit_like that was accepted
Accepted(c) == c.op = "submit_like" /\ c.status \in {1, 2}

\* C19, as claimed: on a session of two different ids at most two submit_like
\* calls are accepted, and at most one with the pairing of each participant.
C19_Claimed ==
    session.user_a_id # session.user_b_id
      => /\ Cardinality({i \in 1..Len(calls) : Accepted(calls[i])}) <= 2
         /\ \A side \in {"a", "b"} :
              Cardinality({i \in 1..Len(calls) :
                             /\ Accepted(calls[i])
                             /\ PairingSide(calls[i].act, session) = side}) <= 1

\* the fields of the confidential session that name its participants and its
\* creation
Binding(match_session) ==
    <<match_session.user_a_id, match_session.user_b_id, match_session.session_created_at>>

CheckCallbackSucceeds ==
    \E i \in 1..MaxInflight : CallbackSuccess(i) /\ comps[i].op = "check_mutual_match"

\* C21: once the record exists, is_finalized and match_found change only in
\* the successful callback of a check_mutual_match (not in submit_like, its
\* callback, the request of a check, the callback of init_match_session or an
\* aborted callback); and that callback sets is_finalized and sets match_found
\* to the is_mutual_match it was handed.
C21_OnlyCheckCallbackFinalizes ==
    [][/\ (/\ acct.initialized
           /\ \/ acct'.is_finalized # acct.is_finalized
              \/ acct'.match_found # acct.match_found)
            => CheckCallbackSucceeds
       /\ \A i \in 1..MaxInflight :
            (CallbackSuccess(i) /\ comps[i].op = "check_mutual_match")
              => /\ acct'.is_finalized
                 /\ acct'.match_found = comps[i].out.result.is_mutual_match]_vars

\* after a check found a match, the callback of a submit_like that revealed
\* NoOp was applied, and both fields are as the check left them
C21_Witness ==
    /\ SessionLive
    /\ acct.is_finalized /\ acct.match_found
    /\ lastCall = Call("submit_like_callback", "Ok", "none")

\* C22: in every state of the stored record, match_found implies is_finalized.
C22_MatchFoundImpliesFinalized ==
    acct.match_found => acct.is_finalized

\* a live session with both likes stored was finalized with a match
C22_Witness ==
    /\ SessionLive
    /\ acct.match_found /\ acct.is_finalized
    /\ BothLiked(Stored)
    /\ lastCall.event = "MutualMatchFoundEvent"

\* C23, as claimed: on a live session of two different ids, once a
\* submit_like callback has revealed MutualInterest(2) no later submit_like
\* callback reveals it again.
C23_Claimed ==
    [][\A i \in 1..MaxInflight :
         (/\ mutualInterest
          /\ SessionLive
          /\ IdOf(acct.user_a) # IdOf(acct.user_b)
          /\ CallbackSuccess(i)
          /\ comps[i].op = "submit_like")
           => /\ comps[i].out.status # 2
              /\ lastCall'.event # "MutualInterestDetectedEvent"]_vars

\* C24: a check_mutual_match returns Match only after a submit_like on the
\* session has returned MutualInterest(2), and the session has both flags true
\* only after such a submit_like.
C24_MatchOnlyAfterMutualInterest ==
    /\ \A j \in 1..Len(calls) :
         (/\ calls[j].op = "check_mutual_match"
          /\ calls[j].result.is_mutual_match \/ calls[j].result.session_status = 1)
           => \E i \in 1..(j - 1) : calls[i].op = "submit_like" /\ calls[i].status = 2
    /\ BothLiked(session)
         => \E i \in 1..Len(calls) :
              /\ calls[i].op = "submit_like" /\ calls[i].status = 2
              /\ BothLiked(calls[i].after)

\* like, like with MutualInterest, then a check that returned Match
C24_Witness ==
    /\ Len(calls) = 3
    /\ session.user_a_id # session.user_b_id
    /\ calls[1].op = "submit_like" /\ calls[1].status = 1
    /\ calls[2].op = "submit_like" /\ calls[2].status = 2
    /\ calls[3].op = "check_mutual_match"
    /\ calls[3].result.is_mutual_match /\ calls[3].result.session_status = 1

\* C25, as claimed: on a live session of two different ids with nothing in
\* flight, the computation a submit_like signed by user_a queues leaves
\* user_b_liked of the stored session as it is when it runs, and the one signed
\* by user_b leaves user_a_liked.
C25_Claimed ==
    [][\A act \in SubmittedActions :
         (/\ SessionLive
          /\ IdOf(acct.user_a) # IdOf(acct.user_b)
          /\ comps = <<>>)
           => /\ SubmitLike(acct.user_a, act)
                   => ix_submit_like(comps'[1].act, Stored).session.user_b_liked
                        = Stored.user_b_liked
              /\ SubmitLike(acct.user_b, act)
                   => ix_submit_like(comps'[1].act, Stored).session.user_a_liked
                        = Stored.user_a_liked]_vars

\* C26, as claimed: the ciphertext of init_match_session is stored only in a
\* record that holds no ciphertext yet, and a submit_like or check_mutual_match
\* computation is in flight only when the init callback has succeeded (no
\* init_match_session computation is in flight and the record holds a
\* ciphertext).
C26_Claimed ==
    [][/\ \A i \in 1..MaxInflight :
            (CallbackSuccess(i) /\ comps[i].op = "init_match_session")
              => ~acct.encrypted_match_data.valid
       /\ \A k \in 1..Len(comps') :
            comps'[k].op \in {"submit_like", "check_mutual_match"}
              => /\ acct'.encrypted_match_data.valid
                 /\ \A m \in 1..Len(comps') : comps'[m].op # "init_match_session"]_vars

\* C27, as claimed: the two participant ids of a live session are distinct.
C27_Claimed ==
    SessionLive => Stored.user_a_id # Stored.user_b_id

\* C28, as claimed: an accepted submit_like leaves last_updated of the
\* confidential session no smaller than it was and no smaller than
\* session_created_at.
C28_Claimed ==
    \A i \in 1..Len(calls) :
      Accepted(calls[i])
        => /\ calls[i].after.last_updated >= calls[i].before.last_updated
           /\ calls[i].after.last_updated >= calls[i].after.session_created_at

\* C29: for 8-bit inputs and u8 arithmetic that wraps modulo 256, the score
\* calculate_compatibility returns lies in 0..100 and is the sum of its four
\* parts: an age part of 0 or 30, an interests part in 0..25, a location part
\* in 0..25 and a relationship part of 0 or 20.
C29_ScoreIsSumOfParts ==
    compat.done
      => LET age == age_part(compat.user_a_prefs, compat.user_b_prefs,
                             compat.user_a_profile, compat.user_b_profile)
             interests == interests_part(compat.user_a_profile, compat.user_b_profile)
             location == location_part(compat.user_a_profile, compat.user_b_profile)
             relationship == relationship_part(compat.user_a_profile,
                                               compat.user_b_profile)
         IN /\ compat.score \in 0..100
            /\ compat.score = age + interests + location + relationship
            /\ age \in {0, 30}
            /\ interests \in 0..25
            /\ location \in 0..25
            /\ relationship \in {0, 20}

\* a score was computed from interest counts whose product with 25 leaves u8
\* and from location scores whose sum leaves u8, with all four parts counted:
\* 30 + 1 + 25 + 20
C29_Witness ==
    /\ compat.done
    /\ compat.user_a_profile.interests_count = 11
    /\ compat.user_b_profile.interests_count = 255
    /\ compat.user_a_profile.location_score + compat.user_b_profile.location_score > 255
    /\ compat.score = 76
====
